---------------------------- MODULE Spec2Model ----------------------------
(***************************************************************************)
(* Model of the HIDL constant-expression evaluator                         *)
(* (src/ConstantExpression.cpp).                                           *)
(*                                                                         *)
(* A 64-bit quantity (uint64_t mValue) is a tuple of 8 bytes, least        *)
(* significant byte first, because the checker's integers are narrower     *)
(* than 64 bits.  A text (const char *, std::string) is a tuple of         *)
(* one-character strings.                                                  *)
(***************************************************************************)
EXTENDS Integers, Sequences, FiniteSets, TLC

VARIABLES stack, halted, last, budget

vars == <<stack, halted, last, budget>>

(***************************************************************************)
(* ScalarType::Kind.  The numbering is the one the table kName[] of        *)
(* description() is indexed with.                                          *)
(***************************************************************************)
KIND_BOOL == 0
KIND_OPAQUE == 1
KIND_INT8 == 2
KIND_UINT8 == 3
KIND_INT16 == 4
KIND_UINT16 == 5
KIND_INT32 == 6
KIND_UINT32 == 7
KIND_INT64 == 8
KIND_UINT64 == 9
KIND_FLOAT == 10
KIND_DOUBLE == 11

Kinds == KIND_BOOL..KIND_DOUBLE

\* the kinds SWITCH_KIND has a case for
SwitchKinds == {KIND_BOOL, KIND_UINT8, KIND_INT8, KIND_UINT16, KIND_INT16,
                KIND_UINT32, KIND_INT32, KIND_UINT64, KIND_INT64}

\* the C++ type SWITCH_KIND selects for a kind: is it signed, how wide is it
IsSignedKind(k) == k \in {KIND_INT8, KIND_INT16, KIND_INT32, KIND_INT64}

KindBytes(k) == CASE k \in {KIND_INT8, KIND_UINT8} -> 1
                  [] k \in {KIND_INT16, KIND_UINT16} -> 2
                  [] k \in {KIND_INT32, KIND_UINT32} -> 4
                  [] OTHER -> 8

(***************************************************************************)
(* 64-bit arithmetic on byte tuples.                                       *)
(***************************************************************************)
Idx == 1..8

Zero64 == <<0, 0, 0, 0, 0, 0, 0, 0>>

One64 == <<1, 0, 0, 0, 0, 0, 0, 0>>

Ones64 == <<255, 255, 255, 255, 255, 255, 255, 255>>

\* a small natural number (below 2^31) as a 64-bit quantity
FromNat(n) == <<n % 256, (n \div 256) % 256, (n \div 65536) % 256,
                (n \div 16777216) % 256, 0, 0, 0, 0>>

\* a + b + c0 modulo 2^64, the carry rippling from byte 1 to byte 8
AddCarry(a, b, c0) ==
    LET s1 == a[1] + b[1] + c0
        s2 == a[2] + b[2] + (s1 \div 256)
        s3 == a[3] + b[3] + (s2 \div 256)
        s4 == a[4] + b[4] + (s3 \div 256)
        s5 == a[5] + b[5] + (s4 \div 256)
        s6 == a[6] + b[6] + (s5 \div 256)
        s7 == a[7] + b[7] + (s6 \div 256)
        s8 == a[8] + b[8] + (s7 \div 256)
    IN  <<s1 % 256, s2 % 256, s3 % 256, s4 % 256,
          s5 % 256, s6 % 256, s7 % 256, s8 % 256>>

Add64(a, b) == AddCarry(a, b, 0)

Not64(a) == <<255 - a[1], 255 - a[2], 255 - a[3], 255 - a[4],
              255 - a[5], 255 - a[6], 255 - a[7], 255 - a[8]>>

Neg64(a) == AddCarry(Not64(a), Zero64, 1)

Sub64(a, b) == AddCarry(a, Not64(b), 1)

\* a * b modulo 2^64: column k collects the products a[i] * b[k + 1 - i]
MulCol(a, b, k) ==
    LET P(i) == IF i <= k THEN a[i] * b[k + 1 - i] ELSE 0
    IN  P(1) + P(2) + P(3) + P(4) + P(5) + P(6) + P(7) + P(8)

Mul64(a, b) ==
    LET s1 == MulCol(a, b, 1)
        s2 == MulCol(a, b, 2) + (s1 \div 256)
        s3 == MulCol(a, b, 3) + (s2 \div 256)
        s4 == MulCol(a, b, 4) + (s3 \div 256)
        s5 == MulCol(a, b, 5) + (s4 \div 256)
        s6 == MulCol(a, b, 6) + (s5 \div 256)
        s7 == MulCol(a, b, 7) + (s6 \div 256)
        s8 == MulCol(a, b, 8) + (s7 \div 256)
    IN  <<s1 % 256, s2 % 256, s3 % 256, s4 % 256,
          s5 % 256, s6 % 256, s7 % 256, s8 % 256>>

Pow2(b) == CASE b = 0 -> 1 [] b = 1 -> 2 [] b = 2 -> 4 [] b = 3 -> 8
             [] b = 4 -> 16 [] b = 5 -> 32 [] b = 6 -> 64 [] OTHER -> 128

BitOf(x, b) == (x \div Pow2(b)) % 2

ByteAnd(x, y) ==
      BitOf(x, 0) * BitOf(y, 0)       + 2 * BitOf(x, 1) * BitOf(y, 1)
    + 4 * BitOf(x, 2) * BitOf(y, 2)   + 8 * BitOf(x, 3) * BitOf(y, 3)
    + 16 * BitOf(x, 4) * BitOf(y, 4)  + 32 * BitOf(x, 5) * BitOf(y, 5)
    + 64 * BitOf(x, 6) * BitOf(y, 6)  + 128 * BitOf(x, 7) * BitOf(y, 7)

ByteOr(x, y) == x + y - ByteAnd(x, y)

ByteXor(x, y) == x + y - 2 * ByteAnd(x, y)

And64(a, b) ==
    <<ByteAnd(a[1], b[1]), ByteAnd(a[2], b[2]), ByteAnd(a[3], b[3]),
      ByteAnd(a[4], b[4]), ByteAnd(a[5], b[5]), ByteAnd(a[6], b[6]),
      ByteAnd(a[7], b[7]), ByteAnd(a[8], b[8])>>

Or64(a, b) ==
    <<ByteOr(a[1], b[1]), ByteOr(a[2], b[2]), ByteOr(a[3], b[3]),
      ByteOr(a[4], b[4]), ByteOr(a[5], b[5]), ByteOr(a[6], b[6]),
      ByteOr(a[7], b[7]), ByteOr(a[8], b[8])>>

Xor64(a, b) ==
    <<ByteXor(a[1], b[1]), ByteXor(a[2], b[2]), ByteXor(a[3], b[3]),
      ByteXor(a[4], b[4]), ByteXor(a[5], b[5]), ByteXor(a[6], b[6]),
      ByteXor(a[7], b[7]), ByteXor(a[8], b[8])>>

\* unsigned order, decided at the most significant byte that differs
ULt(a, b) ==
    LET D == {i \in Idx : a[i] # b[i]}
    IN  /\ D # {}
        /\ \E i \in D : (\A j \in D : j <= i) /\ a[i] < b[i]

ULe(a, b) == ~ULt(b, a)

\* bit 63 of a 64-bit quantity
IsNeg64(a) == a[8] >= 128

\* two's complement order
SLt(a, b) ==
    IF IsNeg64(a) # IsNeg64(b) THEN IsNeg64(a) ELSE ULt(a, b)

\* bit i (0..63) of a; `fill` beyond bit 63, 0 below bit 0
Bit64(a, i, fill) ==
    IF i < 0 THEN 0
    ELSE IF i > 63 THEN fill
    ELSE BitOf(a[(i \div 8) + 1], i % 8)

\* byte k (1..8) of the quantity whose bit j is bit j+d of a
ShiftedByte(a, k, d, fill) ==
      Bit64(a, 8 * (k - 1) + d, fill)
    + 2 * Bit64(a, 8 * (k - 1) + 1 + d, fill)
    + 4 * Bit64(a, 8 * (k - 1) + 2 + d, fill)
    + 8 * Bit64(a, 8 * (k - 1) + 3 + d, fill)
    + 16 * Bit64(a, 8 * (k - 1) + 4 + d, fill)
    + 32 * Bit64(a, 8 * (k - 1) + 5 + d, fill)
    + 64 * Bit64(a, 8 * (k - 1) + 6 + d, fill)
    + 128 * Bit64(a, 8 * (k - 1) + 7 + d, fill)

\* a * 2^n and a / 2^n for 0 <= n
Shift64(a, d, fill) ==
    <<ShiftedByte(a, 1, d, fill), ShiftedByte(a, 2, d, fill),
      ShiftedByte(a, 3, d, fill), ShiftedByte(a, 4, d, fill),
      ShiftedByte(a, 5, d, fill), ShiftedByte(a, 6, d, fill),
      ShiftedByte(a, 7, d, fill), ShiftedByte(a, 8, d, fill)>>

Shl64(a, n) == Shift64(a, 0 - n, 0)

Shr64(a, n, fill) == Shift64(a, n, fill)

\* unsigned long division, restoring, one bit of the dividend at a time.
\* DivStep brings bit `bit` down onto the partial result st = <<q, r>>.
DivStep(st, bit, dv) ==
    LET rb == AddCarry(st[2], st[2], bit)
    IN  IF ULe(dv, rb) THEN <<AddCarry(st[1], st[1], 1), Sub64(rb, dv)>>
        ELSE <<AddCarry(st[1], st[1], 0), rb>>

\* the partial result after bits 7..b of the byte x have been brought down
\* onto st.  (The tests on the length only make a partial result be computed
\* before it is used.)
RECURSIVE DivBits(_, _, _, _)
DivBits(x, dv, st, b) ==
    IF b > 7 THEN st
    ELSE LET sb == DivBits(x, dv, st, b + 1)
         IN  IF Len(sb) = 2 THEN DivStep(sb, BitOf(x, b), dv) ELSE sb

\* the partial result after bytes 8..k of nm
RECURSIVE DivBytes(_, _, _)
DivBytes(nm, dv, k) ==
    IF k > 8 THEN <<Zero64, Zero64>>
    ELSE LET sk == DivBytes(nm, dv, k + 1)
         IN  IF Len(sk) = 2 THEN DivBits(nm[k], dv, sk, 0) ELSE sk

\* <<quotient, remainder>> of unsigned n by unsigned d, d # 0
UDivMod(n, d) == DivBytes(n, d, 1)

UDiv64(n, d) == UDivMod(n, d)[1]

URem64(n, d) == UDivMod(n, d)[2]

Abs64(a) == IF IsNeg64(a) THEN Neg64(a) ELSE a

\* two's complement division truncating toward zero, d # 0
SDiv64(n, d) ==
    LET q == UDiv64(Abs64(n), Abs64(d))
    IN  IF IsNeg64(n) # IsNeg64(d) THEN Neg64(q) ELSE q

SRem64(n, d) ==
    LET r == URem64(Abs64(n), Abs64(d))
    IN  IF IsNeg64(n) THEN Neg64(r) ELSE r


(***************************************************************************)
(* static_cast between the integer types of SWITCH_KIND.  A value of one   *)
(* of these types is carried as its image in 64 bits: sign-extended for a  *)
(* signed type, zero-extended for an unsigned one, 0 or 1 for bool.  That  *)
(* image is also what the assignment of the value to the uint64_t mValue   *)
(* stores.                                                                 *)
(***************************************************************************)
\* the byte a value whose top kept byte is `top` is extended with
ExtByte(signed, top) == IF signed /\ top >= 128 THEN 255 ELSE 0

\* static_cast<T>(v), T the type of kind k, v the image of an integer value
StaticCast(k, v) ==
    IF k = KIND_BOOL THEN (IF v = Zero64 THEN Zero64 ELSE One64)
    ELSE LET w == KindBytes(k)
             e == ExtByte(IsSignedKind(k), v[w])
             B(i) == IF i <= w THEN v[i] ELSE e
         IN  <<B(1), B(2), B(3), B(4), B(5), B(6), B(7), B(8)>>

\* the type an operand of the type of kind k has inside a C++ arithmetic
\* expression: types narrower than int become int
CppPromoted(k) ==
    IF k \in {KIND_BOOL, KIND_INT8, KIND_UINT8, KIND_INT16, KIND_UINT16}
    THEN KIND_INT32 ELSE k

(***************************************************************************)
(* Texts.                                                                  *)
(***************************************************************************)
DecDigits == <<"0", "1", "2", "3", "4", "5", "6", "7", "8", "9">>

\* the value of a character as a digit of the base, -1 when it is none
DigitValue(c, base) ==
    CASE c \in {"0", "1", "2", "3", "4", "5", "6", "7", "8", "9"} ->
           (CHOOSE d \in 0..9 : DecDigits[d + 1] = c)
      [] base = 16 /\ c \in {"a", "A"} -> 10
      [] base = 16 /\ c \in {"b", "B"} -> 11
      [] base = 16 /\ c \in {"c", "C"} -> 12
      [] base = 16 /\ c \in {"d", "D"} -> 13
      [] base = 16 /\ c \in {"e", "E"} -> 14
      [] base = 16 /\ c \in {"f", "F"} -> 15
      [] OTHER -> 0 - 1

\* a * m + d for small m and d, as <<the low 64 bits, the carry out of them>>
MulAddSmall(a, m, d) ==
    LET s1 == a[1] * m + d
        s2 == a[2] * m + (s1 \div 256)
        s3 == a[3] * m + (s2 \div 256)
        s4 == a[4] * m + (s3 \div 256)
        s5 == a[5] * m + (s4 \div 256)
        s6 == a[6] * m + (s5 \div 256)
        s7 == a[7] * m + (s6 \div 256)
        s8 == a[8] * m + (s7 \div 256)
    IN  <<<<s1 % 256, s2 % 256, s3 % 256, s4 % 256,
            s5 % 256, s6 % 256, s7 % 256, s8 % 256>>, s8 \div 256>>

\* <<a \div m, a % m>> for small m
DivModSmall(a, m) ==
    LET c8 == a[8]
        c7 == (c8 % m) * 256 + a[7]
        c6 == (c7 % m) * 256 + a[6]
        c5 == (c6 % m) * 256 + a[5]
        c4 == (c5 % m) * 256 + a[4]
        c3 == (c4 % m) * 256 + a[3]
        c2 == (c3 % m) * 256 + a[2]
        c1 == (c2 % m) * 256 + a[1]
    IN  <<<<c1 \div m, c2 \div m, c3 \div m, c4 \div m,
            c5 \div m, c6 \div m, c7 \div m, c8 \div m>>, c1 % m>>

\* the digits of txt[1..k] read in the base: <<ok, value>>, ok false on a
\* character that is no digit and on a value beyond 64 bits.  (The test on
\* the length only makes the partial result be computed before it is used.)
RECURSIVE DigitsValue(_, _, _)
DigitsValue(txt, base, k) ==
    IF k = 0 THEN <<TRUE, Zero64>>
    ELSE LET pv == DigitsValue(txt, base, k - 1)
         IN  IF Len(pv) = 2 /\ pv[1] /\ DigitValue(txt[k], base) >= 0
             THEN LET nv == MulAddSmall(pv[2], base, DigitValue(txt[k], base))
                  IN  <<nv[2] = 0, nv[1]>>
             ELSE <<FALSE, Zero64>>

\* the decimal digits of an unsigned 64-bit quantity, none for zero
RECURSIVE DecimalOf(_)
DecimalOf(a) ==
    IF a = Zero64 THEN <<>>
    ELSE LET qr == DivModSmall(a, 10)
         IN  IF Len(qr) = 2 THEN DecimalOf(qr[1]) \o <<DecDigits[qr[2] + 1]>>
             ELSE <<>>

\* std::to_string of a value of the type of kind k (int for the types
\* narrower than int), given as its image
to_string(k, v) ==
    IF v = Zero64 THEN <<"0">>
    ELSE IF IsSignedKind(CppPromoted(k)) /\ IsNeg64(v)
         THEN <<"-">> \o DecimalOf(Neg64(v))
         ELSE DecimalOf(v)


(***************************************************************************)
(* The kind model.                                                         *)
(***************************************************************************)
integralPromotion(in) == IF KIND_INT32 < in THEN in ELSE KIND_INT32

\* the CHECK that opens usualArithmeticConversion
ConversionCheck(lft, rgt) ==
    /\ KIND_BOOL <= lft /\ lft <= KIND_UINT64
    /\ KIND_BOOL <= rgt /\ rgt <= KIND_UINT64
    /\ lft # KIND_OPAQUE /\ rgt # KIND_OPAQUE

\* usualArithmeticConversion keeping the left kind of two kinds of one
\* signedness
usualArithmeticConversionLeft(lft, rgt) ==
    LET isLftSigned == lft \in {KIND_INT8, KIND_INT16, KIND_INT32, KIND_INT64}
        isRgtSigned == rgt \in {KIND_INT8, KIND_INT16, KIND_INT32, KIND_INT64}
        unsignedRank == IF isLftSigned THEN rgt ELSE lft
        signedRank == IF isLftSigned THEN lft ELSE rgt
    IN  IF lft = rgt THEN lft
        ELSE IF lft = KIND_BOOL THEN rgt
        ELSE IF rgt = KIND_BOOL THEN lft
        ELSE IF isLftSigned = isRgtSigned THEN lft
        ELSE IF unsignedRank >= signedRank THEN unsignedRank
        ELSE signedRank

\* the kind returned; the caller has passed ConversionCheck
usualArithmeticConversion(lft, rgt) ==
    LET isLftSigned == lft \in {KIND_INT8, KIND_INT16, KIND_INT32, KIND_INT64}
        isRgtSigned == rgt \in {KIND_INT8, KIND_INT16, KIND_INT32, KIND_INT64}
        unsignedRank == IF isLftSigned THEN rgt ELSE lft
        signedRank == IF isLftSigned THEN lft ELSE rgt
    IN  IF lft = rgt THEN lft
        ELSE IF lft = KIND_BOOL THEN rgt
        ELSE IF rgt = KIND_BOOL THEN lft
        ELSE IF isLftSigned = isRgtSigned
             THEN (IF lft < rgt THEN rgt ELSE lft)
        ELSE IF unsignedRank >= signedRank THEN unsignedRank
        ELSE signedRank

(***************************************************************************)
(* Expression nodes.  A node is a record of the members mFormatted, mType, *)
(* mValueKind and mValue; ctor, op and kids (the constructor that built    *)
(* it, its operator and its operand nodes) are history the program does    *)
(* not keep.  FATAL stands for a construction that ended the process       *)
(* (LOG(FATAL), a failed CHECK, a trap of the processor).                  *)
(***************************************************************************)
kConstExprLiteral == "kConstExprLiteral"
kConstExprUnknown == "kConstExprUnknown"
kConstExprUnary == "kConstExprUnary"
kConstExprBinary == "kConstExprBinary"
kConstExprTernary == "kConstExprTernary"

MkNode(fmt, type, kind, value, c, o, ks) ==
    [mFormatted |-> fmt, mType |-> type, mValueKind |-> kind, mValue |-> value,
     ctor |-> c, op |-> o, kids |-> ks]

FATAL == MkNode(<<>>, "FATAL", KIND_BOOL, <<>>, "", "", <<>>)

\* in place of a value or of a text: the process ended while computing it
TRAP == <<>>

\* What a member that was never assigned may hold.  mValueKind and mValue
\* of a kConstExprUnknown node are not initialized: every read of them is a
\* choice among these.
IndeterminateKinds == {KIND_OPAQUE, KIND_INT32, KIND_UINT64}

IndeterminateValues == {Zero64, <<0, 0, 0, 0, 0, 0, 0, 128>>}

INT32_MAX == <<255, 255, 255, 127, 0, 0, 0, 0>>

UINT32_MAX == <<255, 255, 255, 255, 0, 0, 0, 0>>

INT64_MAX == <<255, 255, 255, 255, 255, 255, 255, 127>>

INT64_MIN == <<0, 0, 0, 0, 0, 0, 0, 128>>

INT32_MIN == <<0, 0, 0, 128, 255, 255, 255, 255>>

(***************************************************************************)
(* Literals.                                                               *)
(***************************************************************************)
\* base::ParseUint of the text: <<ok, value>>.  Base 16 after 0x or 0X,
\* else base 10; at least one digit, nothing but digits, at most 64 bits.
ParseUint(txt) ==
    LET hex == Len(txt) >= 2 /\ txt[1] = "0" /\ txt[2] \in {"x", "X"}
        digits == IF hex THEN SubSeq(txt, 3, Len(txt)) ELSE txt
        r == DigitsValue(digits, IF hex THEN 16 ELSE 10, Len(digits))
    IN  IF digits = <<>> THEN <<FALSE, Zero64>> ELSE r

\* the while loop of the literal constructor: the index `tail` stops at
RECURSIVE StripSuffix(_, _)
StripSuffix(value, tail) ==
    IF tail >= 1 /\ value[tail] \in {"u", "U", "l", "L"}
    THEN StripSuffix(value, tail - 1)
    ELSE tail

\* GuessKind with the limits excluded
GuessKindStrict(isLong, isUnsigned, isHex, v) ==
    IF isLong
    THEN (IF isUnsigned THEN KIND_UINT64 ELSE KIND_INT64)
    ELSE IF isUnsigned
         THEN (IF ULt(v, UINT32_MAX) THEN KIND_UINT32 ELSE KIND_UINT64)
         ELSE IF isHex
              THEN (IF ULt(v, INT32_MAX) THEN KIND_INT32
                    ELSE IF ULt(v, UINT32_MAX) THEN KIND_UINT32
                    ELSE IF ULt(v, INT64_MAX) THEN KIND_INT64
                    ELSE KIND_UINT64)
              ELSE (IF ULt(v, INT32_MAX) THEN KIND_INT32 ELSE KIND_INT64)

\* "guess literal type"
GuessKind(isLong, isUnsigned, isHex, v) ==
    IF isLong
    THEN (IF isUnsigned THEN KIND_UINT64 ELSE KIND_INT64)
    ELSE IF isUnsigned
         THEN (IF ULe(v, UINT32_MAX) THEN KIND_UINT32 ELSE KIND_UINT64)
         ELSE IF isHex
              THEN (IF ULe(v, INT32_MAX) THEN KIND_INT32
                    ELSE IF ULe(v, UINT32_MAX) THEN KIND_UINT32
                    ELSE IF ULe(v, INT64_MAX) THEN KIND_INT64
                    ELSE KIND_UINT64)
              ELSE (IF ULe(v, INT32_MAX) THEN KIND_INT32 ELSE KIND_INT64)

\* ConstantExpression(const char *value, ConstExprType type): the outcomes
LiteralNode(value, type) ==
    IF type = kConstExprUnknown
    THEN {MkNode(value, type, k, v, "literal", "", <<>>) :
              k \in IndeterminateKinds, v \in IndeterminateValues}
    ELSE LET tail == StripSuffix(value, Len(value))
             sfx == {value[i] : i \in (tail + 1)..Len(value)}
             isUnsigned == sfx \cap {"u", "U"} # {}
             isLong == sfx \cap {"l", "L"} # {}
             isHex == Len(value) >= 2 /\ value[1] = "0" /\ value[2] \in {"x", "X"}
             parsed == ParseUint(SubSeq(value, 1, tail))
         IN  IF ~parsed[1]
             THEN {FATAL}
             ELSE {MkNode(value, type,
                          GuessKind(isLong, isUnsigned, isHex, parsed[2]),
                          parsed[2], "literal", "", <<>>)}


(***************************************************************************)
(* Operators.  Signed arithmetic wraps around in two's complement, which   *)
(* is what the compiled code does where the language leaves the overflow   *)
(* undefined.  Where processors differ (a division by zero, the quotient   *)
(* INT_MIN / -1, a shift count beyond the width) every outcome is kept.    *)
(***************************************************************************)
UnaryOps == {"+", "-", "!", "~"}

ArithmeticOps == {"+", "-", "*", "/", "%"}

BitflipOps == {"|", "^", "&"}

CompOps == {"<", ">", "<=", ">=", "==", "!="}

ShiftOps == {">>", "<<"}

LogicalOps == {"||", "&&"}

BinaryOps == ArithmeticOps \cup BitflipOps \cup CompOps \cup ShiftOps \cup LogicalOps

\* the characters of an operator symbol
OpChars(o) ==
    CASE o = "<=" -> <<"<", "=">>
      [] o = ">=" -> <<">", "=">>
      [] o = "==" -> <<"=", "=">>
      [] o = "!=" -> <<"!", "=">>
      [] o = ">>" -> <<">", ">">>
      [] o = "<<" -> <<"<", "<">>
      [] o = "||" -> <<"|", "|">>
      [] o = "&&" -> <<"&", "&">>
      [] OTHER -> <<o>>

BoolImage(b) == IF b THEN One64 ELSE Zero64

\* handleUnary whose result is not brought back to the type T
handleUnaryWide(k, o, val) ==
    CASE o = "+" -> {val}
      [] o = "-" -> {Neg64(val)}
      [] o = "!" -> {BoolImage(val = Zero64)}
      [] o = "~" -> {Not64(val)}

\* handleUnary<T>(op, val), T the type of kind k: the outcomes
handleUnary(k, o, val) ==
    CASE o = "+" -> {StaticCast(k, val)}
      [] o = "-" -> {StaticCast(k, StaticCast(CppPromoted(k), Neg64(val)))}
      [] o = "!" -> {StaticCast(k, BoolImage(val = Zero64))}
      [] o = "~" -> {StaticCast(k, StaticCast(CppPromoted(k), Not64(val)))}
      [] OTHER -> {TRAP}

\* the smallest value of the signed type of kind k
MinOf(k) == IF k = KIND_INT64 THEN INT64_MIN ELSE INT32_MIN

\* handleBinaryCommon<T>(lval, op, rval), T the type of kind k: the outcomes
handleBinaryCommon(k, lval, o, rval) ==
    LET p == CppPromoted(k)
        sg == IsSignedKind(p)
        R(x) == {StaticCast(k, StaticCast(p, x))}
        lt(x, y) == IF sg THEN SLt(x, y) ELSE ULt(x, y)
        overflows == sg /\ lval = MinOf(p) /\ rval = Ones64
    IN  CASE o = "+" -> R(Add64(lval, rval))
          [] o = "-" -> R(Sub64(lval, rval))
          [] o = "*" -> R(Mul64(lval, rval))
          [] o = "/" -> IF rval = Zero64 THEN {TRAP} \cup R(Zero64)
                        ELSE IF overflows THEN {TRAP} \cup R(lval)
                        ELSE IF sg THEN R(SDiv64(lval, rval))
                        ELSE R(UDiv64(lval, rval))
          [] o = "%" -> IF rval = Zero64 THEN {TRAP} \cup R(lval)
                        ELSE IF overflows THEN {TRAP} \cup R(Zero64)
                        ELSE IF sg THEN R(SRem64(lval, rval))
                        ELSE R(URem64(lval, rval))
          [] o = "|" -> R(Or64(lval, rval))
          [] o = "^" -> R(Xor64(lval, rval))
          [] o = "&" -> R(And64(lval, rval))
          [] o = "==" -> R(BoolImage(lval = rval))
          [] o = "!=" -> R(BoolImage(lval # rval))
          [] o = "<" -> R(BoolImage(lt(lval, rval)))
          [] o = ">" -> R(BoolImage(lt(rval, lval)))
          [] o = "<=" -> R(BoolImage(~lt(rval, lval)))
          [] o = ">=" -> R(BoolImage(~lt(lval, rval)))
          [] OTHER -> {TRAP}

\* lval shifted by n bits, 0 <= n <= 64, in the type of kind p
ShiftBy(p, lval, o, n) ==
    IF o = "<<" THEN StaticCast(p, Shl64(lval, n))
    ELSE StaticCast(p, Shr64(lval, n,
                             IF IsSignedKind(p) /\ IsNeg64(lval) THEN 1 ELSE 0))

\* handleShift<T>(lval, op, rval), T the type of kind k, rval an int64_t: the
\* outcomes.  A count that is negative or not below the width is shifted by
\* its low bits on one processor and shifts everything out on another.
handleShift(k, lval, o, rval) ==
    LET p == CppPromoted(k)
        width == 8 * KindBytes(p)
        inRange == ~IsNeg64(rval) /\ ULt(rval, FromNat(width))
    IN  IF o \notin ShiftOps THEN {TRAP}
        ELSE IF inRange
        THEN {StaticCast(k, ShiftBy(p, lval, o, rval[1]))}
        ELSE {StaticCast(k, ShiftBy(p, lval, o, rval[1] % width)),
              StaticCast(k, ShiftBy(p, lval, o, 64))}

\* handleLogical(lval, op, rval)
handleLogical(lval, o, rval) ==
    CASE o = "||" -> {BoolImage(lval \/ rval)}
      [] o = "&&" -> {BoolImage(lval /\ rval)}
      [] OTHER -> {TRAP}

\* T ConstantExpression::cast<T>() const, T the type of kind k
CastNode(n, k) ==
    IF n.mType = kConstExprUnknown \/ n.mValueKind \notin SwitchKinds
    THEN TRAP
    ELSE StaticCast(k, StaticCast(n.mValueKind, n.mValue))

\* a node whose mValue is the outcome v of a handler
WithValue(fmt, type, kind, v, c, o, ks) ==
    IF v = TRAP THEN FATAL ELSE MkNode(fmt, type, kind, v, c, o, ks)

\* ConstantExpression(const char *op, const ConstantExpression *value)
UnaryNode(o, value) ==
    LET fmt == <<"(">> \o OpChars(o) \o value.mFormatted \o <<")">>
        kind == value.mValueKind
    IN  IF value.mType = kConstExprUnknown \/ kind \notin SwitchKinds
        THEN {MkNode(fmt, kConstExprUnknown, kind, v, "unary", o, <<value>>) :
                  v \in IndeterminateValues}
        ELSE {WithValue(fmt, kConstExprUnary, kind, v, "unary", o, <<value>>) :
                  v \in handleUnary(kind, o, StaticCast(kind, value.mValue))}


\* a kConstExprUnknown node left with the kinds ks and an unassigned mValue
UnknownNodes(fmt, kinds, c, o, ks) ==
    {MkNode(fmt, kConstExprUnknown, k, v, c, o, ks) :
         k \in kinds, v \in IndeterminateValues}

\* BinaryCommonNode without the usual arithmetic conversion: the operands
\* are taken at the promoted kind of the left one
BinaryCommonNodeLeft(fmt, lval, o, rval) ==
    LET lk == integralPromotion(lval.mValueKind)
        rk == integralPromotion(rval.mValueKind)
        promoted == lk
        kind == IF o \in ArithmeticOps \cup BitflipOps THEN promoted ELSE KIND_BOOL
    IN  IF ~ConversionCheck(lk, rk) THEN {FATAL}
        ELSE IF promoted \notin SwitchKinds
        THEN UnknownNodes(fmt, {kind}, "binary", o, <<lval, rval>>)
        ELSE {WithValue(fmt, kConstExprBinary, kind, v, "binary", o, <<lval, rval>>) :
                  v \in handleBinaryCommon(promoted,
                                           StaticCast(promoted, lval.mValue), o,
                                           StaticCast(promoted, rval.mValue))}

\* CASE 1 of the binary constructor: + - * / % | ^ & < > <= >= == !=
BinaryCommonNode(fmt, lval, o, rval) ==
    LET lk == integralPromotion(lval.mValueKind)
        rk == integralPromotion(rval.mValueKind)
        promoted == usualArithmeticConversion(lk, rk)
        kind == IF o \in ArithmeticOps \cup BitflipOps THEN promoted ELSE KIND_BOOL
    IN  IF ~ConversionCheck(lk, rk) THEN {FATAL}
        ELSE IF promoted \notin SwitchKinds
        THEN UnknownNodes(fmt, {kind}, "binary", o, <<lval, rval>>)
        ELSE {WithValue(fmt, kConstExprBinary, kind, v, "binary", o, <<lval, rval>>) :
                  v \in handleBinaryCommon(promoted,
                                           StaticCast(promoted, lval.mValue), o,
                                           StaticCast(promoted, rval.mValue))}

\* BinaryShiftNode negating a negative count and keeping the direction
BinaryShiftNodeNoFlip(fmt, lval, o, rval) ==
    LET kind == integralPromotion(lval.mValueKind)
        cast == CastNode(rval, KIND_INT64)
        numBits == IF cast # TRAP /\ IsNeg64(cast) THEN Neg64(cast) ELSE cast
    IN  IF cast = TRAP THEN {FATAL}
        ELSE IF kind \notin SwitchKinds
        THEN UnknownNodes(fmt, {kind}, "binary", o, <<lval, rval>>)
        ELSE {WithValue(fmt, kConstExprBinary, kind, v, "binary", o, <<lval, rval>>) :
                  v \in handleShift(kind, StaticCast(kind, lval.mValue), o, numBits)}

\* CASE 2 of the binary constructor: << >>
BinaryShiftNode(fmt, lval, o, rval) ==
    LET kind == integralPromotion(lval.mValueKind)
        cast == CastNode(rval, KIND_INT64)
        flip == cast # TRAP /\ IsNeg64(cast)
        op2 == IF flip THEN (IF o = "<<" THEN ">>" ELSE "<<") ELSE o
        numBits == IF flip THEN Neg64(cast) ELSE cast
    IN  IF cast = TRAP THEN {FATAL}
        ELSE IF kind \notin SwitchKinds
        THEN UnknownNodes(fmt, {kind}, "binary", o, <<lval, rval>>)
        ELSE {WithValue(fmt, kConstExprBinary, kind, v, "binary", o, <<lval, rval>>) :
                  v \in handleShift(kind, StaticCast(kind, lval.mValue), op2, numBits)}

\* CASE 3 of the binary constructor: && ||
BinaryLogicalNode(fmt, lval, o, rval) ==
    {WithValue(fmt, kConstExprBinary, KIND_BOOL, v, "binary", o, <<lval, rval>>) :
         v \in handleLogical(lval.mValue # Zero64, o, rval.mValue # Zero64)}

\* ConstantExpression(const ConstantExpression *lval, const char *op,
\*                    const ConstantExpression *rval)
BinaryNode(lval, o, rval) ==
    LET fmt == <<"(">> \o lval.mFormatted \o <<" ">> \o OpChars(o) \o <<" ">>
               \o rval.mFormatted \o <<")">>
    IN  IF lval.mType = kConstExprUnknown \/ rval.mType = kConstExprUnknown
        THEN UnknownNodes(fmt, IndeterminateKinds, "binary", o, <<lval, rval>>)
        ELSE IF o \in ArithmeticOps \cup BitflipOps \cup CompOps
        THEN BinaryCommonNode(fmt, lval, o, rval)
        ELSE IF o \in ShiftOps
        THEN BinaryShiftNode(fmt, lval, o, rval)
        ELSE IF o \in LogicalOps
        THEN BinaryLogicalNode(fmt, lval, o, rval)
        ELSE UnknownNodes(fmt, IndeterminateKinds, "binary", o, <<lval, rval>>)

\* ConstantExpression(const ConstantExpression *cond,
\*                    const ConstantExpression *trueVal,
\*                    const ConstantExpression *falseVal)
TernaryNode(cond, trueVal, falseVal) ==
    LET fmt == <<"(">> \o cond.mFormatted \o <<"?">> \o trueVal.mFormatted
               \o <<":">> \o falseVal.mFormatted \o <<")">>
        kind == usualArithmeticConversion(trueVal.mValueKind, falseVal.mValueKind)
        ks == <<cond, trueVal, falseVal>>
    IN  IF ~ConversionCheck(trueVal.mValueKind, falseVal.mValueKind) THEN {FATAL}
        ELSE IF kind \notin SwitchKinds
        THEN UnknownNodes(fmt, {kind}, "ternary", "?:", ks)
        ELSE {MkNode(fmt, kConstExprTernary, kind,
                     IF cond.mValue # Zero64 THEN StaticCast(kind, trueVal.mValue)
                     ELSE StaticCast(kind, falseVal.mValue),
                     "ternary", "?:", ks)}

(***************************************************************************)
(* Renderings.                                                             *)
(***************************************************************************)
expr(n) == n.mFormatted

kName ==
    <<<<"b", "o", "o", "l">>, <<"v", "o", "i", "d", " ", "*">>,
      <<"i", "n", "t", "8", "_", "t">>, <<"u", "i", "n", "t", "8", "_", "t">>,
      <<"i", "n", "t", "1", "6", "_", "t">>,
      <<"u", "i", "n", "t", "1", "6", "_", "t">>,
      <<"i", "n", "t", "3", "2", "_", "t">>,
      <<"u", "i", "n", "t", "3", "2", "_", "t">>,
      <<"i", "n", "t", "6", "4", "_", "t">>,
      <<"u", "i", "n", "t", "6", "4", "_", "t">>,
      <<"f", "l", "o", "a", "t">>, <<"d", "o", "u", "b", "l", "e">>>>

description(n) ==
    IF n.mType = kConstExprUnknown THEN expr(n)
    ELSE <<"(">> \o kName[n.mValueKind + 1] \o <<")">> \o expr(n)

value0(n, castKind) ==
    IF n.mType = kConstExprUnknown THEN expr(n)
    ELSE IF castKind \notin SwitchKinds THEN expr(n)
    ELSE LET c == CastNode(n, castKind)
         IN  IF c = TRAP THEN TRAP ELSE to_string(castKind, c)

\* value() rendering at the narrowest kind
valueNarrow(n) == value0(n, KIND_INT8)

value(n) == value0(n, n.mValueKind)

cppValue(n, castKind) ==
    LET literal == value0(n, castKind)
    IN  IF literal = TRAP THEN TRAP
        ELSE IF castKind = KIND_INT64 /\ n.mValue = INT64_MIN
        THEN <<"(">> \o kName[KIND_INT64 + 1] \o <<")", "(">> \o literal
             \o <<"u", "l", "l", ")">>
        ELSE literal
             \o (IF castKind \in {KIND_UINT32, KIND_UINT64} THEN <<"u">> ELSE <<>>)
             \o (IF castKind \in {KIND_UINT64, KIND_INT64} THEN <<"l", "l">> ELSE <<>>)

javaValue(n, castKind) ==
    CASE castKind = KIND_UINT64 -> value0(n, KIND_INT64)
      [] castKind = KIND_UINT32 -> value0(n, KIND_INT32)
      [] castKind = KIND_UINT16 -> value0(n, KIND_INT16)
      [] castKind = KIND_UINT8 -> value0(n, KIND_INT8)
      [] castKind = KIND_BOOL ->
           IF n.mType = kConstExprUnknown THEN expr(n)
           ELSE LET c == CastNode(n, KIND_BOOL)
                IN  IF c = TRAP THEN TRAP
                    ELSE IF c # Zero64 THEN <<"t", "r", "u", "e">>
                    ELSE <<"f", "a", "l", "s", "e">>
      [] OTHER -> value0(n, castKind)

(***************************************************************************)
(* The program.  The parser builds one node at a time; `stack` holds the   *)
(* nodes built and not yet taken as operands, the newest last.  `last` is  *)
(* the latest call with its arguments and its result, `halted` says that   *)
(* the process has ended in LOG(FATAL), a failed CHECK or a trap, and      *)
(* `budget` is the number of constructions still to come.                  *)
(***************************************************************************)
NoCall == [call |-> "none", args |-> <<>>, result |-> <<>>]

Top(n) == stack[Len(stack) + 1 - n]

Rest(n) == SubSeq(stack, 1, Len(stack) - n)

\* the end of a constructor call with the outcome o
Complete(call, args, o, rest) ==
    /\ last' = [call |-> call, args |-> args, result |-> o]
    /\ halted' = (o = FATAL)
    /\ stack' = IF o = FATAL THEN stack ELSE Append(rest, o)
    /\ budget' = budget - 1

\* the end of a call that builds no node, with the result r
Return(call, args, r) ==
    /\ last' = [call |-> call, args |-> args, result |-> r]
    /\ halted' = (r = TRAP)
    /\ UNCHANGED <<stack, budget>>

NewLiteral(text, type) ==
    /\ ~halted /\ budget > 0
    /\ \E o \in LiteralNode(text, type) : Complete("literal", <<text, type>>, o, stack)

NewUnary(o) ==
    /\ ~halted /\ budget > 0 /\ Len(stack) >= 1
    /\ \E r \in UnaryNode(o, Top(1)) : Complete("unary", <<o, Top(1)>>, r, Rest(1))

NewBinary(o) ==
    /\ ~halted /\ budget > 0 /\ Len(stack) >= 2
    /\ \E r \in BinaryNode(Top(2), o, Top(1)) :
           Complete("binary", <<Top(2), o, Top(1)>>, r, Rest(2))

NewTernary ==
    /\ ~halted /\ budget > 0 /\ Len(stack) >= 3
    /\ \E r \in TernaryNode(Top(3), Top(2), Top(1)) :
           Complete("ternary", <<Top(3), Top(2), Top(1)>>, r, Rest(3))

\* a literal built from the text value() gives for the newest node
Reparse ==
    /\ ~halted /\ budget > 0 /\ Len(stack) >= 1
    /\ \E r \in LiteralNode(value(Top(1)), kConstExprLiteral) :
           Complete("reparse", <<Top(1)>>, r, stack)

CallValue ==
    /\ ~halted /\ Len(stack) >= 1
    /\ Return("value", <<Top(1), Top(1).mValueKind>>, value(Top(1)))

CallCppValue(castKind) ==
    /\ ~halted /\ Len(stack) >= 1
    /\ Return("cppValue", <<Top(1), castKind>>, cppValue(Top(1), castKind))

CallJavaValue(castKind) ==
    /\ ~halted /\ Len(stack) >= 1
    /\ Return("javaValue", <<Top(1), castKind>>, javaValue(Top(1), castKind))

CallDescription ==
    /\ ~halted /\ Len(stack) >= 1
    /\ Return("description", <<Top(1), Top(1).mValueKind>>, description(Top(1)))

\* -1 for the CHECK that fails
CallUsualArithmeticConversion(lft, rgt) ==
    /\ ~halted
    /\ last' = [call |-> "usualArithmeticConversion", args |-> <<lft, rgt>>,
                result |-> IF ConversionCheck(lft, rgt)
                           THEN usualArithmeticConversion(lft, rgt) ELSE 0 - 1]
    /\ halted' = ~ConversionCheck(lft, rgt)
    /\ UNCHANGED <<stack, budget>>

CallIntegralPromotion(in) ==
    /\ ~halted
    /\ last' = [call |-> "integralPromotion", args |-> <<in>>,
                result |-> integralPromotion(in)]
    /\ UNCHANGED <<stack, halted, budget>>

\* the nodes built and not yet taken as operands
StackNodes == {stack[i] : i \in 1..Len(stack)}

InitWith(n) ==
    /\ stack = <<>>
    /\ halted = FALSE
    /\ last = NoCall
    /\ budget = n

(***************************************************************************)
(* The kind functions alone.                                               *)
(***************************************************************************)
InitConv == InitWith(0)

NextConv ==
    \/ \E lft \in Kinds, rgt \in Kinds : CallUsualArithmeticConversion(lft, rgt)
    \/ \E in \in Kinds : CallIntegralPromotion(in)

SpecConv == InitConv /\ [][NextConv]_vars

\* bool and the eight integer kinds
IntegerKinds ==
    {KIND_BOOL, KIND_INT8, KIND_UINT8, KIND_INT16, KIND_UINT16,
     KIND_INT32, KIND_UINT32, KIND_INT64, KIND_UINT64}

\* C8: usualArithmeticConversion(a, b), a and b among bool and the eight
\* integer kinds, returns without a fatal error, and what it returns is
\* what usualArithmeticConversion(b, a) returns.
C8_ConversionCommutes ==
    (/\ last.call = "usualArithmeticConversion"
     /\ last.args[1] \in IntegerKinds
     /\ last.args[2] \in IntegerKinds)
    => /\ ~halted
       /\ last.result \in IntegerKinds
       /\ ConversionCheck(last.args[2], last.args[1])
       /\ last.result = usualArithmeticConversion(last.args[2], last.args[1])

\* a call on a signed and an unsigned kind of different widths has returned
C8_Witness ==
    /\ last.call = "usualArithmeticConversion"
    /\ last.args = <<KIND_UINT8, KIND_INT32>>
    /\ last.result = KIND_INT32
    /\ ~halted

(***************************************************************************)
(* Literals alone: digit strings around the limits of the kinds, texts     *)
(* that are no numbers, and suffixes in every order and case.              *)
(***************************************************************************)
MaxLiterals == 1

DigitTexts ==
    {<<"0">>,
     <<"1", "0">>,
     <<"2", "1", "4", "7", "4", "8", "3", "6", "4", "7">>,
     <<"2", "1", "4", "7", "4", "8", "3", "6", "4", "8">>,
     <<"4", "2", "9", "4", "9", "6", "7", "2", "9", "5">>,
     <<"4", "2", "9", "4", "9", "6", "7", "2", "9", "6">>,
     <<"9", "2", "2", "3", "3", "7", "2", "0", "3", "6", "8", "5", "4", "7", "7", "5", "8", "0", "7">>,
     <<"9", "2", "2", "3", "3", "7", "2", "0", "3", "6", "8", "5", "4", "7", "7", "5", "8", "0", "8">>,
     <<"1", "8", "4", "4", "6", "7", "4", "4", "0", "7", "3", "7", "0", "9", "5", "5", "1", "6", "1", "5">>,
     <<"1", "8", "4", "4", "6", "7", "4", "4", "0", "7", "3", "7", "0", "9", "5", "5", "1", "6", "1", "6">>,
     <<"0", "x", "0">>,
     <<"0", "x", "7", "F", "F", "F", "F", "F", "F", "F">>,
     <<"0", "x", "8", "0", "0", "0", "0", "0", "0", "0">>,
     <<"0", "X", "F", "F", "F", "F", "F", "F", "F", "F">>,
     <<"0", "x", "1", "0", "0", "0", "0", "0", "0", "0", "0">>,
     <<"0", "x", "7", "f", "f", "f", "f", "f", "f", "f", "f", "f", "f", "f", "f", "f", "f", "f">>,
     <<"0", "x", "8", "0", "0", "0", "0", "0", "0", "0", "0", "0", "0", "0", "0", "0", "0", "0">>,
     <<"0", "x", "F", "F", "F", "F", "F", "F", "F", "F", "F", "F", "F", "F", "F", "F", "F", "F">>,
     <<"0", "x", "1", "0", "0", "0", "0", "0", "0", "0", "0", "0", "0", "0", "0", "0", "0", "0", "0">>,
     <<>>,
     <<"0", "x">>,
     <<"a", "b", "c">>,
     <<"1", "a">>,
     <<"-", "1">>,
     <<"0", "x", "1", "g">>}

SuffixTexts ==
    {<<>>,
     <<"u">>,
     <<"U">>,
     <<"l">>,
     <<"L">>,
     <<"u", "l">>,
     <<"l", "u">>,
     <<"U", "L">>,
     <<"L", "U">>,
     <<"u", "L">>,
     <<"L", "u">>,
     <<"l", "l">>,
     <<"u", "u">>,
     <<"l", "u", "l">>,
     <<"U", "L", "L">>}

LiteralTexts == {d \o x : d \in DigitTexts, x \in SuffixTexts}

InitLiteral == InitWith(MaxLiterals)

NextLiteral == \E text \in LiteralTexts : NewLiteral(text, kConstExprLiteral)

SpecLiteral == InitLiteral /\ [][NextLiteral]_vars

SuffixChars == {"u", "U", "l", "L"}

\* the text without its suffix characters, and the suffix characters in it
DigitsOf(text) == SelectSeq(text, LAMBDA c : c \notin SuffixChars)

MarkersOf(text) == {text[i] : i \in 1..Len(text)} \cap SuffixChars

LongSeen(text) == MarkersOf(text) \cap {"l", "L"} # {}

UnsignedSeen(text) == MarkersOf(text) \cap {"u", "U"} # {}

HexPrefix(text) == Len(text) >= 2 /\ text[1] = "0" /\ text[2] \in {"x", "X"}

\* a digit string of 64 bits at most followed by suffix characters only
WellFormed(text) ==
    /\ SubSeq(text, 1, Len(DigitsOf(text))) = DigitsOf(text)
    /\ ParseUint(DigitsOf(text))[1]

\* the largest value of a kind
MaxOf(k) ==
    CASE k = KIND_INT32 -> INT32_MAX
      [] k = KIND_UINT32 -> UINT32_MAX
      [] k = KIND_INT64 -> INT64_MAX
      [] OTHER -> Ones64

\* the first kind of the list whose range holds the value, the last one
\* of the list when none does
RECURSIVE FirstFit(_, _)
FirstFit(list, v) ==
    IF Len(list) = 1 \/ ULe(v, MaxOf(Head(list))) THEN Head(list)
    ELSE FirstFit(Tail(list), v)

TableKind(text) ==
    LET v == ParseUint(DigitsOf(text))[2]
    IN  IF LongSeen(text) /\ UnsignedSeen(text) THEN KIND_UINT64
        ELSE IF LongSeen(text) THEN KIND_INT64
        ELSE IF UnsignedSeen(text) THEN FirstFit(<<KIND_UINT32, KIND_UINT64>>, v)
        ELSE IF HexPrefix(text)
        THEN FirstFit(<<KIND_INT32, KIND_UINT32, KIND_INT64, KIND_UINT64>>, v)
        ELSE FirstFit(<<KIND_INT32, KIND_INT64>>, v)

\* C2: a literal that is a decimal or hexadecimal digit string followed by
\* suffix characters gets the kind of the table (uint64 for long and
\* unsigned, int64 for long, uint32 or uint64 for unsigned, the first of
\* int32, uint32, int64, uint64 that holds an unsuffixed hexadecimal value,
\* int32 or int64 for an unsuffixed decimal value), and every literal of
\* the same digits with the same markers in another order or case gets
\* the same kind.
C2_LiteralKind ==
    (/\ last.call = "literal"
     /\ WellFormed(last.args[1]))
    => /\ ~halted
       /\ last.result.mType = kConstExprLiteral
       /\ last.result.mValueKind = TableKind(last.args[1])
       /\ \A x \in SuffixTexts :
              (/\ LongSeen(x) = LongSeen(last.args[1])
               /\ UnsignedSeen(x) = UnsignedSeen(last.args[1]))
              => \A m \in LiteralNode(DigitsOf(last.args[1]) \o x, kConstExprLiteral) :
                     m.mValueKind = last.result.mValueKind

\* the literal 0x7FFFFFFF has been built with the kind int32, the largest
\* value of that kind
C2_Witness ==
    /\ last.call = "literal"
    /\ last.args[1] = <<"0", "x", "7", "F", "F", "F", "F", "F", "F", "F">>
    /\ ~halted
    /\ last.result.mValueKind = KIND_INT32
    /\ last.result.mValue = INT32_MAX

\* C4: a literal whose text without its trailing suffix characters is no
\* number of 64 bits is built all the same: the process goes on and the
\* node is Unknown with the text of the literal.
C4_ParseFailureRecovers ==
    (/\ last.call = "literal"
     /\ last.args[2] = kConstExprLiteral
     /\ ~ParseUint(SubSeq(last.args[1], 1,
                          StripSuffix(last.args[1], Len(last.args[1]))))[1])
    => /\ ~halted
       /\ last.result.mType = kConstExprUnknown
       /\ expr(last.result) = last.args[1]

\* C9: the value of a literal that parses lies in the range of its kind.
C9_ValueFitsKind ==
    (/\ last.call = "literal"
     /\ last.args[2] = kConstExprLiteral
     /\ ~halted)
    => ULe(last.result.mValue, MaxOf(last.result.mValueKind))

(***************************************************************************)
(* Expressions over literals that parse: every operator of the grammar.    *)
(***************************************************************************)
MaxOps == 4

ExprTexts ==
    {<<"0">>,
     <<"1">>,
     <<"2">>,
     <<"1", "u">>,
     <<"3", "l">>,
     <<"2", "1", "4", "7", "4", "8", "3", "6", "4", "7">>,
     <<"0", "x", "8", "0", "0", "0", "0", "0", "0", "0">>,
     <<"0", "x", "F", "F", "F", "F", "F", "F", "F", "F", "F", "F", "F", "F", "F", "F", "F", "F">>,
     <<"9", "2", "2", "3", "3", "7", "2", "0", "3", "6", "8", "5", "4", "7", "7", "5", "8", "0", "8">>}

Init == InitWith(MaxOps)

Next ==
    \/ \E text \in ExprTexts : NewLiteral(text, kConstExprLiteral)
    \/ \E o \in UnaryOps : NewUnary(o)
    \/ \E o \in BinaryOps : NewBinary(o)
    \/ NewTernary

Spec == Init /\ [][Next]_vars

\* the image v is a value of the type of kind k widened to 64 bits
Widened(k, v) ==
    LET upper == {v[i] : i \in (KindBytes(k) + 1)..8}
    IN  CASE k = KIND_BOOL -> v \in {Zero64, One64}
          [] IsSignedKind(k) ->
               upper \subseteq {IF v[KindBytes(k)] >= 128 THEN 255 ELSE 0}
          [] OTHER -> upper \subseteq {0}

\* C10: the value stored in a node that is not Unknown is a value of the
\* kind of the node widened to 64 bits (sign-extended for a signed kind,
\* zero-extended for an unsigned one, 0 or 1 for bool), so that the
\* stored value is nonzero exactly when the value read at the kind is.
C10_CanonicalStorage ==
    \A n \in StackNodes :
        n.mType # kConstExprUnknown
        => /\ n.mValueKind \in IntegerKinds
           /\ Widened(n.mValueKind, n.mValue)
           /\ (n.mValue # Zero64) = (CastNode(n, n.mValueKind) # Zero64)
           /\ (n.mValue # Zero64) = (CastNode(n, KIND_BOOL) = One64)

\* ~1u has been built: the complement is computed on 32 bits and the upper
\* half of the storage is zero
C10_Witness ==
    \E n \in StackNodes :
        /\ n.ctor = "unary" /\ n.op = "~"
        /\ n.mType = kConstExprUnary
        /\ n.mValueKind = KIND_UINT32
        /\ n.mValue = <<254, 255, 255, 255, 0, 0, 0, 0>>

(***************************************************************************)
(* The arithmetic, bitwise and comparison operators, deep enough for the   *)
(* result of a comparison to be an operand.                                *)
(***************************************************************************)
MaxCommonOps == 5

CommonTexts ==
    {<<"1">>,
     <<"2">>,
     <<"1", "u">>,
     <<"3", "l">>,
     <<"0", "x", "F", "F", "F", "F", "F", "F", "F", "F", "F", "F", "F", "F", "F", "F", "F", "F">>}

CommonOps == ArithmeticOps \cup BitflipOps \cup CompOps

InitCommon == InitWith(MaxCommonOps)

NextCommon ==
    \/ \E text \in CommonTexts : NewLiteral(text, kConstExprLiteral)
    \/ NewUnary("-")
    \/ \E o \in CommonOps : NewBinary(o)

SpecCommon == InitCommon /\ [][NextCommon]_vars

\* the comparison of two values of the type of kind k
Compares(k, a, o, b) ==
    LET lt(x, y) == IF IsSignedKind(k) THEN SLt(x, y) ELSE ULt(x, y)
    IN  CASE o = "<" -> lt(a, b)
          [] o = ">" -> lt(b, a)
          [] o = "<=" -> ~lt(b, a)
          [] o = ">=" -> ~lt(a, b)
          [] o = "==" -> a = b
          [] o = "!=" -> a # b

\* what C3 says of the binary node b
CommonKindAndValue(b) ==
    LET lval == b.kids[1]
        rval == b.kids[2]
        working == usualArithmeticConversion(integralPromotion(lval.mValueKind),
                                             integralPromotion(rval.mValueKind))
    IN  IF b.op \in CompOps
        THEN /\ b.mValueKind = KIND_BOOL
             /\ b.mValue \in {Zero64, One64}
             /\ (b.mValue = One64) = Compares(working,
                                              StaticCast(working, lval.mValue), b.op,
                                              StaticCast(working, rval.mValue))
        ELSE b.mValueKind = working

\* C3: a binary node of one of + - * / % | ^ & < > <= >= == != over two
\* nodes that are not Unknown and whose kinds are bool or integer kinds:
\* with the working kind the usual arithmetic conversion of the two
\* promoted kinds, the node of an arithmetic or bitwise operator has the
\* working kind, and the node of a comparison has the kind bool and the
\* value 0 or 1 of the comparison of the operands converted to the working
\* kind; 1 + 2 is int32 3 and 1u + 2 is uint32 3.
C3_CommonKind ==
    \A b \in StackNodes :
        (/\ b.ctor = "binary"
         /\ b.op \in CommonOps
         /\ b.kids[1].mType # kConstExprUnknown
         /\ b.kids[2].mType # kConstExprUnknown
         /\ b.kids[1].mValueKind \in IntegerKinds
         /\ b.kids[2].mValueKind \in IntegerKinds)
        => /\ b.mType = kConstExprBinary
           /\ CommonKindAndValue(b)
           /\ (expr(b) = <<"(", "1", " ", "+", " ", "2", ")">>
               => b.mValueKind = KIND_INT32 /\ b.mValue = FromNat(3))
           /\ (expr(b) = <<"(", "1", "u", " ", "+", " ", "2", ")">>
               => b.mValueKind = KIND_UINT32 /\ b.mValue = FromNat(3))

\* (-1) < 1u has been built: the comparison is made at uint32, where the
\* left operand is the larger, and the node is the bool 0
C3_Witness ==
    \E b \in StackNodes :
        /\ b.ctor = "binary" /\ b.op = "<"
        /\ b.kids[1].mValueKind = KIND_INT32 /\ b.kids[1].mValue = Ones64
        /\ b.kids[2].mValueKind = KIND_UINT32 /\ b.kids[2].mValue = One64
        /\ b.mValueKind = KIND_BOOL /\ b.mValue = Zero64

(***************************************************************************)
(* value() read back as a literal.                                         *)
(***************************************************************************)
MaxRoundTripOps == 4

RoundTripTexts ==
    {<<"0">>,
     <<"1">>,
     <<"1", "u">>,
     <<"3", "l">>,
     <<"2", "1", "4", "7", "4", "8", "3", "6", "4", "7">>,
     <<"0", "x", "8", "0", "0", "0", "0", "0", "0", "0">>,
     <<"9", "2", "2", "3", "3", "7", "2", "0", "3", "6", "8", "5", "4", "7", "7", "5", "8", "0", "7">>,
     <<"0", "x", "F", "F", "F", "F", "F", "F", "F", "F", "F", "F", "F", "F", "F", "F", "F", "F">>}

InitRoundTrip == InitWith(MaxRoundTripOps)

NextRoundTrip ==
    \/ \E text \in RoundTripTexts : NewLiteral(text, kConstExprLiteral)
    \/ \E o \in UnaryOps : NewUnary(o)
    \/ \E o \in {"+", "*", "<", "&&", "<<"} : NewBinary(o)
    \/ NewTernary
    \/ Reparse

SpecRoundTrip == InitRoundTrip /\ [][NextRoundTrip]_vars

\* the value of the node read at its kind is negative
NegativeAtKind(n) ==
    /\ IsSignedKind(n.mValueKind)
    /\ IsNeg64(StaticCast(n.mValueKind, n.mValue))

\* C7 as claimed: the literal built from value() of a node that is not
\* Unknown is built, is not Unknown, and stores the value of the node.
C7_RoundTrip ==
    (/\ last.call = "reparse"
     /\ last.args[1].mType # kConstExprUnknown)
    => /\ ~halted
       /\ last.result.mType # kConstExprUnknown
       /\ last.result.mValue = last.args[1].mValue

\* C7, amended: the literal built from value() of a node that is not
\* Unknown and whose value read at its own kind is not negative is built,
\* is not Unknown, and stores the value of the node.
C7_RoundTripNonNegative ==
    (/\ last.call = "reparse"
     /\ last.args[1].mType # kConstExprUnknown
     /\ ~NegativeAtKind(last.args[1]))
    => /\ ~halted
       /\ last.result.mType # kConstExprUnknown
       /\ last.result.mValue = last.args[1].mValue

\* ~1u, the uint32 4294967294, has been read back
C7_Witness ==
    /\ last.call = "reparse"
    /\ last.args[1].ctor = "unary" /\ last.args[1].op = "~"
    /\ last.args[1].mValueKind = KIND_UINT32
    /\ last.args[1].mValue = <<254, 255, 255, 255, 0, 0, 0, 0>>
    /\ ~halted
    /\ last.result.mValue = last.args[1].mValue

(***************************************************************************)
(* Expressions with leaves that are not evaluated, and their renderings.   *)
(***************************************************************************)
MaxUnknownOps == 4

UnknownTexts == {<<"f", "o", "o">>}

KnownTexts == {<<"0">>, <<"1">>}

RenderKinds == {KIND_BOOL, KIND_UINT32, KIND_INT64}

InitUnknown == InitWith(MaxUnknownOps)

NextUnknown ==
    \/ \E text \in UnknownTexts : NewLiteral(text, kConstExprUnknown)
    \/ \E text \in KnownTexts : NewLiteral(text, kConstExprLiteral)
    \/ NewUnary("-")
    \/ \E o \in {"+", "<<", "&&"} : NewBinary(o)
    \/ NewTernary
    \/ CallValue
    \/ \E k \in RenderKinds : CallCppValue(k)
    \/ \E k \in RenderKinds : CallJavaValue(k)
    \/ CallDescription

SpecUnknown == InitUnknown /\ [][NextUnknown]_vars

\* C1: a node built by the unary, binary or ternary constructor from
\* operands one of which is Unknown is Unknown.
C1_UnknownAbsorbs ==
    \A n \in StackNodes :
        (/\ n.ctor \in {"unary", "binary", "ternary"}
         /\ \E i \in 1..Len(n.kids) : n.kids[i].mType = kConstExprUnknown)
        => n.mType = kConstExprUnknown

\* C5: value(), cppValue(kind), javaValue(kind) and description() of an
\* Unknown node return the text of the node and nothing else, whatever
\* the kind.
C5_UnknownRendersAsText ==
    (/\ last.call \in {"value", "cppValue", "javaValue", "description"}
     /\ last.args[1].mType = kConstExprUnknown)
    => /\ ~halted
       /\ last.result = expr(last.args[1])

(***************************************************************************)
(* Shifts, with counts of either sign.                                     *)
(***************************************************************************)
MaxShiftOps == 5

ShiftTexts ==
    {<<"1">>,
     <<"3">>,
     <<"3", "1">>,
     <<"3", "3">>,
     <<"5", "u">>,
     <<"3", "l">>,
     <<"0", "x", "8", "0", "0", "0", "0", "0", "0", "0">>,
     <<"0", "x", "F", "0", "0", "0", "0", "0", "0", "0", "0", "0", "0", "0", "0", "0", "F", "F">>}

InitShift == InitWith(MaxShiftOps)

NextShift ==
    \/ \E text \in ShiftTexts : NewLiteral(text, kConstExprLiteral)
    \/ NewUnary("-")
    \/ \E o \in ShiftOps : NewBinary(o)

SpecShift == InitShift /\ [][NextShift]_vars

\* the nodes built by a shift whose count node m is of a signed kind and
\* negative, -m being a count inside the width of the promoted left kind
NegativeShifts ==
    {a \in StackNodes :
        /\ a.ctor = "binary" /\ a.op \in ShiftOps
        /\ a.kids[1].mType # kConstExprUnknown
        /\ a.kids[2].mType # kConstExprUnknown
        /\ IsSignedKind(a.kids[2].mValueKind)
        /\ IsNeg64(a.kids[2].mValue)
        /\ ULt(Neg64(a.kids[2].mValue),
               FromNat(8 * KindBytes(integralPromotion(a.kids[1].mValueKind))))}

\* a literal node of the kind k and of the value v
CountNode(k, v) ==
    MkNode(to_string(k, v), kConstExprLiteral, k, v, "literal", "", <<>>)

\* C6: the node of x << m, m a negative count of a signed kind with -m
\* inside the width of the promoted kind of x, has the kind and the value
\* of the node of x >> -m, and the node of x >> m those of x << -m.
C6_NegativeShiftFlips ==
    \A a \in NegativeShifts :
        \A k \in {KIND_INT32, KIND_UINT32, KIND_INT64, KIND_UINT64} :
            \A b \in BinaryNode(a.kids[1],
                                IF a.op = "<<" THEN ">>" ELSE "<<",
                                CountNode(k, Neg64(a.kids[2].mValue))) :
                /\ a.mType = kConstExprBinary
                /\ b.mType = kConstExprBinary
                /\ b.mValueKind = a.mValueKind
                /\ b.mValue = a.mValue

\* 0x80000000 << (-3) has been built, the uint32 0x10000000
C6_Witness ==
    \E a \in NegativeShifts :
        /\ a.op = "<<"
        /\ a.kids[1].mValue = <<0, 0, 0, 128, 0, 0, 0, 0>>
        /\ a.kids[2].mValue = Neg64(FromNat(3))
        /\ a.mValueKind = KIND_UINT32
        /\ a.mValue = <<0, 0, 0, 16, 0, 0, 0, 0>>

=============================================================================
